---- MODULE Spec2Model ----
(***************************************************************************)
(* Model of the Parliament script generator's session handlers:            *)
(*   WebA  src/app/app.py                      process_topic /             *)
(*                                             run_parliament_session_ui   *)
(*   WebB  src/app.py                          process_topic /             *)
(*                                             run_parliament_session_ui   *)
(*   CliA  src/app/parliament_agent_open_ai_sdk.py  run_parliament_session *)
(*   CliB  src/parlament_agent.py              run_parliament_session      *)
(* together with the guardrail pre-check (src/app/guardrails_config.py),   *)
(* the two file-writing tools and the comic panel generator.               *)
(*                                                                         *)
(* Text is modelled as a sequence of fragments.  Where the code inspects   *)
(* characters (str.strip, str.endswith, re.search) the fragments are       *)
(* single characters; opaque text (an exception's message, a script) is a  *)
(* one-fragment sequence or a plain string.  A number of seconds is an     *)
(* exact decimal [num, den] (num / den), den a power of ten.               *)
(***************************************************************************)
EXTENDS Integers, Sequences, FiniteSets, TLC

\* ------------------------------------------------------------------------
\* Bounds of the model
\* ------------------------------------------------------------------------
\* Sessions handled one after the other over the same output directory.
MaxSessions == 2
\* Writer-tool calls the translator makes during one session.
MaxToolCalls == 2

\* ------------------------------------------------------------------------
\* Text helpers
\* ------------------------------------------------------------------------
Whitespace == {" ", "\t", "\n"}

RECURSIVE LStrip(_)
LStrip(s) ==
    IF s # <<>> /\ Head(s) \in Whitespace THEN LStrip(Tail(s)) ELSE s

RECURSIVE RStrip(_)
RStrip(s) ==
    IF s # <<>> /\ s[Len(s)] \in Whitespace
    THEN RStrip(SubSeq(s, 1, Len(s) - 1))
    ELSE s

\* str.strip()
Strip(s) == RStrip(LStrip(s))

\* str.endswith(suffix)
EndsWith(s, suffix) ==
    /\ Len(s) >= Len(suffix)
    /\ SubSeq(s, Len(s) - Len(suffix) + 1, Len(s)) = suffix

\* ", ".join(parts): parts is a sequence of texts
RECURSIVE Join(_)
Join(parts) ==
    IF parts = <<>> THEN <<>>
    ELSE IF Len(parts) = 1 THEN parts[1]
    ELSE parts[1] \o <<", ">> \o Join(Tail(parts))

\* ------------------------------------------------------------------------
\* re.search(r'retry in (\d+\.?\d*)s', error_msg) and float(group(1))
\* ------------------------------------------------------------------------
Digits == {"0", "1", "2", "3", "4", "5", "6", "7", "8", "9"}

DigitVal(c) ==
    CASE c = "0" -> 0 [] c = "1" -> 1 [] c = "2" -> 2 [] c = "3" -> 3
      [] c = "4" -> 4 [] c = "5" -> 5 [] c = "6" -> 6 [] c = "7" -> 7
      [] c = "8" -> 8 [] c = "9" -> 9

RetryLiteral == <<"r", "e", "t", "r", "y", " ", "i", "n", " ">>

\* length of the longest run of digits of s that starts at position i
RECURSIVE DigitRun(_, _)
DigitRun(s, i) ==
    IF i <= Len(s) /\ s[i] \in Digits THEN 1 + DigitRun(s, i + 1) ELSE 0

CharAt(s, i) == IF i >= 1 /\ i <= Len(s) THEN s[i] ELSE "$"

\* The text captured by group 1 when the pattern matches at position p,
\* <<>> when it does not.  \d+ takes the whole digit run; the pattern then
\* needs either "s", or "." followed by a (possibly empty) digit run and
\* "s".  No shorter choice of \d+ or \d* can match when these fail, since
\* what must follow is always the character after a digit run.
MatchAt(s, p) ==
    LET i  == p + Len(RetryLiteral)
        d1 == DigitRun(s, i)
        j  == i + d1
        d2 == DigitRun(s, j + 1)
        k  == j + 1 + d2
    IN  IF p + Len(RetryLiteral) - 1 > Len(s)
           \/ SubSeq(s, p, p + Len(RetryLiteral) - 1) # RetryLiteral
           \/ d1 = 0
        THEN <<>>
        ELSE IF CharAt(s, j) = "s" THEN SubSeq(s, i, j - 1)
        ELSE IF CharAt(s, j) = "." /\ CharAt(s, k) = "s" THEN SubSeq(s, i, k - 1)
        ELSE <<>>

\* re.search: the leftmost position at which the pattern matches
RECURSIVE SearchFrom(_, _)
SearchFrom(s, p) ==
    IF p > Len(s) THEN <<>>
    ELSE IF MatchAt(s, p) # <<>> THEN MatchAt(s, p)
    ELSE SearchFrom(s, p + 1)

\* retry_match.group(1), <<>> when retry_match is None
RetrySearch(s) == SearchFrom(s, 1)

RECURSIVE Pow(_, _)
Pow(b, n) == IF n = 0 THEN 1 ELSE b * Pow(b, n - 1)

RECURSIVE DigitsValue(_)
DigitsValue(ds) ==
    IF ds = <<>> THEN 0
    ELSE 10 * DigitsValue(SubSeq(ds, 1, Len(ds) - 1)) + DigitVal(ds[Len(ds)])

\* float(g) for g matching \d+\.?\d*
ParseFloat(g) ==
    LET d1   == DigitRun(g, 1)
        frac == IF d1 < Len(g) THEN SubSeq(g, d1 + 2, Len(g)) ELSE <<>>
    IN  [num |-> DigitsValue(SubSeq(g, 1, d1)) * Pow(10, Len(frac))
                    + DigitsValue(frac),
         den |-> Pow(10, Len(frac))]

Seconds(n) == [num |-> n, den |-> 1]

AddSeconds(x, n) == [num |-> x.num + n * x.den, den |-> x.den]

SameSeconds(x, y) == x.num * y.den = y.num * x.den

\* format(delay, ".0f"): round to the nearest integer, ties to even
FormatFixed0(x) ==
    LET q == x.num \div x.den
        r == x.num % x.den
    IN  IF 2 * r < x.den THEN q
        ELSE IF 2 * r > x.den THEN q + 1
        ELSE IF q % 2 = 0 THEN q ELSE q + 1

\* ------------------------------------------------------------------------
\* Program constants
\* ------------------------------------------------------------------------
WebA_max_retries == 3
WebA_base_delay == 30
WebB_max_retries == 3
WebB_base_delay == 30
CliA_max_retries == 3
CliA_base_delay == 35
CliB_max_retries == 5
CliB_base_delay == 2
\* the "+ 5" added to the wait the API suggests
RetryBuffer == 5

Entries == {"WebA", "WebB", "CliA", "CliB"}
WebEntries == {"WebA", "WebB"}
CliEntries == {"CliA", "CliB"}

\* faulty variant: every loop given the five attempts of src/parlament_agent.py
max_retries_AllFive(e) == CliB_max_retries

max_retries(e) ==
    CASE e = "WebA" -> WebA_max_retries
      [] e = "WebB" -> WebB_max_retries
      [] e = "CliA" -> CliA_max_retries
      [] e = "CliB" -> CliB_max_retries

\* faulty variant: every loop starts from the 30 seconds of the web handlers
base_delay_AllThirty(e) == WebA_base_delay

base_delay(e) ==
    CASE e = "WebA" -> WebA_base_delay
      [] e = "WebB" -> WebB_base_delay
      [] e = "CliA" -> CliA_base_delay
      [] e = "CliB" -> CliB_base_delay

\* String literals of the code (emoji prefixes of the literals are left out:
\* the module is ASCII).
PleaseEnterTopic == <<"Please enter a topic">>
ValidationFailedPrefix == <<"Input Validation Failed\n\n">>
GenericErrorPrefix == <<"Error: ">>
OriginalNotFound == <<"Original script file not found.">>
\* faulty variant: the placeholder of the other artifact
HebrewNotFound_AsOriginal == <<"Original script file not found.">>
HebrewNotFound == <<"Hebrew translation file not found.">>
UnexpectedError == <<"Unexpected error occurred">>
DefaultTopic == <<"The impact of technology on society">>
FinalScriptPrefix == <<"Final Script Output:\n">>
CliRateLimitExceeded == <<"Rate limit exceeded. Please try again later.">>
None == <<"None">>

\* ------------------------------------------------------------------------
\* Inputs the environment supplies
\* ------------------------------------------------------------------------
\* what the user types
Topics == { <<>>, <<" ">>, <<"a">>, <<" ", "a", "b", "\n">>, <<"{">> }

\* final_output of the validation agent
FinalOutputs == { <<"a">>, <<"c">> }

\* texts of exceptions that are not rate-limit errors
ErrorTexts == { <<"boom">> }

\* names of guardrails whose tripwire fires
GuardrailNames == { <<"Moderation">> }

\* str(e) of a RateLimitError
Msg_retry_12_5 ==
    <<"r", "e", "t", "r", "y", " ", "i", "n", " ", "1", "2", ".", "5", "s">>
Msg_retry_7 ==
    <<"4", "2", "9", " ", "r", "e", "t", "r", "y", " ", "i", "n", " ", "7", "s", ".">>
Msg_quota == <<"q", "u", "o", "t", "a">>
Msg_retry_dot5 == <<"r", "e", "t", "r", "y", " ", "i", "n", " ", ".", "5", "s">>
RateLimitMessages == {Msg_retry_12_5, Msg_retry_7, Msg_quota, Msg_retry_dot5}

\* texts the translator passes to the writer tools
Texts == {"t1", "t2"}

\* names of files in the output directory
original_script_txt ==
    <<"o", "r", "i", "g", "i", "n", "a", "l", "_", "s", "c", "r", "i", "p", "t",
      ".", "t", "x", "t">>
hebrew_output_txt ==
    <<"h", "e", "b", "r", "e", "w", "_", "o", "u", "t", "p", "u", "t",
      ".", "t", "x", "t">>
notes_txt == <<"n", "o", "t", "e", "s", ".", "t", "x", "t">>
keep_md == <<"k", "e", "e", "p", ".", "m", "d">>
DotTxt == <<".", "t", "x", "t">>

\* an output directory: whether it exists, and its regular files
EmptyFiles == [n \in {} |-> "old"]
NoDir == [exists |-> FALSE, files |-> EmptyFiles]
EmptyDir == [exists |-> TRUE, files |-> EmptyFiles]
StaleDir ==
    [exists |-> TRUE,
     files |-> (hebrew_output_txt :> "old" @@ notes_txt :> "old"
                  @@ keep_md :> "old")]
InitialDirs == {NoDir, EmptyDir, StaleDir}

TxtFiles(d) == {n \in DOMAIN d.files : EndsWith(n, DotTxt)}


\* ------------------------------------------------------------------------
\* File-writing tools
\* ------------------------------------------------------------------------
\* open(path, 'w').write(text)
WriteFile(files, name, text) ==
    [m \in DOMAIN files \cup {name} |-> IF m = name THEN text ELSE files[m]]

\* faulty variant: only the file about to be rewritten is removed
RemoveTxtFiles_KeepsOthers(files) ==
    [m \in DOMAIN files \ {original_script_txt} |-> files[m]]

\* for filename in os.listdir(dir): if filename.endswith('.txt'): os.remove
RemoveTxtFiles(files) ==
    [m \in {n \in DOMAIN files : ~EndsWith(n, DotTxt)} |-> files[m]]

\* faulty variant: the translation is written over the original script
write_hebrew_to_file_A_WrongFile(d, text) ==
    [dir |-> [exists |-> TRUE,
              files |-> WriteFile(d.files, original_script_txt, text)],
     ok |-> TRUE]

\* src/app/parliament_agent_open_ai_sdk.py: makedirs, then write
write_hebrew_to_file_A(d, text) ==
    [dir |-> [exists |-> TRUE,
              files |-> WriteFile(d.files, hebrew_output_txt, text)],
     ok |-> TRUE]

\* src/app/parliament_agent_open_ai_sdk.py: makedirs, purge *.txt, write
original_script_A(d, text) ==
    [dir |-> [exists |-> TRUE,
              files |-> WriteFile(RemoveTxtFiles(d.files),
                                  original_script_txt, text)],
     ok |-> TRUE]

\* src/parlament_agent.py: open() raises when output_scripts/ is missing
write_hebrew_to_file_B(d, text) ==
    IF d.exists
    THEN [dir |-> [exists |-> TRUE,
                   files |-> WriteFile(d.files, hebrew_output_txt, text)],
          ok |-> TRUE]
    ELSE [dir |-> d, ok |-> FALSE]

\* src/parlament_agent.py: os.listdir raises when output_scripts/ is missing
original_script_B(d, text) ==
    IF d.exists
    THEN [dir |-> [exists |-> TRUE,
                   files |-> WriteFile(RemoveTxtFiles(d.files),
                                       original_script_txt, text)],
          ok |-> TRUE]
    ELSE [dir |-> d, ok |-> FALSE]

\* the tools the scripter of an entry point hands off to
write_hebrew_to_file(e, d, text) ==
    IF e \in {"WebA", "CliA"} THEN write_hebrew_to_file_A(d, text)
    ELSE write_hebrew_to_file_B(d, text)

original_script(e, d, text) ==
    IF e \in {"WebA", "CliA"} THEN original_script_A(d, text)
    ELSE original_script_B(d, text)

\* ------------------------------------------------------------------------
\* Guardrail pre-check
\* ------------------------------------------------------------------------
\* outcomes of Runner.run(self.agent, user_input)
ValidationRuns ==
    [kind : {"ok"}, arg : FinalOutputs]
      \cup [kind : {"tripwire"}, arg : GuardrailNames]
      \cup [kind : {"error"}, arg : ErrorTexts]

\* outcomes of MyGuardrailsAgent(): constructed, or an exception
Constructions == [kind : {"ok"}, arg : {<<>>}] \cup [kind : {"error"}, arg : ErrorTexts]

validate_user_input(run) ==
    CASE run.kind = "ok" ->
           [success |-> TRUE, sanitized_input |-> run.arg, warnings |-> <<>>]
      [] run.kind = "tripwire" ->
           [success |-> FALSE, sanitized_input |-> <<>>,
            warnings |-> << <<"Guardrail triggered: ">> \o run.arg >>]
      [] run.kind = "error" ->
           [success |-> FALSE, sanitized_input |-> <<>>,
            warnings |-> << <<"Validation error: ">> \o run.arg >>]

NoResponseYet == [success |-> FALSE, sanitized_input |-> <<>>, warnings |-> <<>>]

\* faulty variant: the success flag of the GuardrailsResponse is not looked at
ValidationStep_IgnoresSuccess(ctor, run) ==
    IF ctor.kind = "error"
    THEN [raised |-> "GuardrailsValidationError",
          text |-> <<"Validation error: ">> \o ctor.arg,
          validation_result |-> <<>>]
    ELSE [raised |-> "none", text |-> <<>>,
          validation_result |-> validate_user_input(run).sanitized_input]

\* faulty variant: an exception escaping the validation step is not re-labelled
ValidationStep_BareError(ctor, run) ==
    IF ctor.kind = "error"
    THEN [raised |-> "Exception", text |-> ctor.arg, validation_result |-> <<>>]
    ELSE IF ~validate_user_input(run).success
    THEN [raised |-> "GuardrailsValidationError",
          text |-> Join(validate_user_input(run).warnings),
          validation_result |-> <<>>]
    ELSE [raised |-> "none", text |-> <<>>,
          validation_result |-> validate_user_input(run).sanitized_input]

\* Step 1 of run_parliament_session_ui (src/app/app.py): what it raises, or
\* the validation_result it goes on with
ValidationStep(ctor, run) ==
    IF ctor.kind = "error"
    THEN [raised |-> "GuardrailsValidationError",
          text |-> <<"Validation error: ">> \o ctor.arg,
          validation_result |-> <<>>]
    ELSE IF ~validate_user_input(run).success
    THEN [raised |-> "GuardrailsValidationError",
          text |-> Join(validate_user_input(run).warnings),
          validation_result |-> <<>>]
    ELSE [raised |-> "none", text |-> <<>>,
          validation_result |-> validate_user_input(run).sanitized_input]

\* ------------------------------------------------------------------------
\* Retry delay
\* ------------------------------------------------------------------------
NoDelay == [num |-> 0, den |-> 1]

\* faulty variant: the exponent is off by one
ExponentialDelay_OffByOne(base, attempt) == Seconds(base * Pow(2, attempt + 1))

\* base_delay * (2 ** attempt)
ExponentialDelay(base, attempt) == Seconds(base * Pow(2, attempt))

\* faulty variant: the suggested wait is used without the buffer
SuggestedOrExponential_NoBuffer(base, attempt, msg) ==
    IF RetrySearch(msg) # <<>>
    THEN ParseFloat(RetrySearch(msg))
    ELSE Seconds(base * Pow(2, attempt))

\* float(retry_match.group(1)) + 5 if retry_match else base_delay * 2**attempt
SuggestedOrExponential(base, attempt, msg) ==
    IF RetrySearch(msg) # <<>>
    THEN AddSeconds(ParseFloat(RetrySearch(msg)), RetryBuffer)
    ELSE ExponentialDelay(base, attempt)

\* faulty variant: the test is attempt < max_retries
IsLastAttempt_OffByOne(e, attempt) == ~(attempt < max_retries(e))

\* faulty variant: every entry point sleeps and retries
ReturnsAdvisory_Never(e) == FALSE

\* if attempt < max_retries - 1: ... else: ...
IsLastAttempt(e, attempt) == ~(attempt < max_retries(e) - 1)

\* On a rate-limit error before the last attempt the web handlers return a
\* status message; the CLI handlers await asyncio.sleep(delay) and loop.
ReturnsAdvisory(e) == e \in WebEntries

\* the delay an entry point computes for a rate-limit error on an attempt
\* before the last
ComputeDelay(e, attempt, msg) ==
    IF e = "CliB" THEN ExponentialDelay(base_delay(e), attempt)
    ELSE SuggestedOrExponential(base_delay(e), attempt, msg)

\* ------------------------------------------------------------------------
\* What process_topic returns
\* ------------------------------------------------------------------------
\* faulty variant: the two script fields change places
process_topic_A_Swapped(r) ==
    CASE r.raised = "none" ->
           [original |-> r.hebrew, hebrew |-> r.original,
            comic_image |-> r.comic_image, error |-> <<>>]
      [] r.raised = "GuardrailsValidationError" ->
           [original |-> <<>>, hebrew |-> <<>>, comic_image |-> None,
            error |-> ValidationFailedPrefix \o r.text]
      [] OTHER ->
           [original |-> <<>>, hebrew |-> <<>>, comic_image |-> None,
            error |-> GenericErrorPrefix \o r.text]

\* src/app/app.py: (original, hebrew, comic_img, error)
process_topic_A(r) ==
    CASE r.raised = "none" ->
           [original |-> r.original, hebrew |-> r.hebrew,
            comic_image |-> r.comic_image, error |-> <<>>]
      [] r.raised = "GuardrailsValidationError" ->
           [original |-> <<>>, hebrew |-> <<>>, comic_image |-> None,
            error |-> ValidationFailedPrefix \o r.text]
      [] OTHER ->
           [original |-> <<>>, hebrew |-> <<>>, comic_image |-> None,
            error |-> GenericErrorPrefix \o r.text]

\* src/app.py: (original, hebrew)
process_topic_B(r) ==
    IF r.raised = "none"
    THEN [original |-> r.original, hebrew |-> r.hebrew]
    ELSE [original |-> GenericErrorPrefix \o r.text, hebrew |-> <<>>]

\* faulty variant: the banner is shown whenever the original field has text
handle_submit_BannerOnText(r) ==
    IF r.error # <<>> \/ r.original # <<>>
    THEN [original |-> r.original, hebrew |-> r.hebrew, comic_image |-> None,
          comic_visible |-> FALSE, error_html |-> r.error,
          error_visible |-> TRUE]
    ELSE [original |-> r.original, hebrew |-> r.hebrew,
          comic_image |-> r.comic_image,
          comic_visible |-> (r.comic_image # None), error_html |-> <<>>,
          error_visible |-> FALSE]

\* src/app/app.py, handle_submit: the updates of the output components for a
\* response r of process_topic (error_html stands for the alert box around
\* the error text)
handle_submit(r) ==
    IF r.error # <<>>
    THEN [original |-> r.original, hebrew |-> r.hebrew, comic_image |-> None,
          comic_visible |-> FALSE, error_html |-> r.error,
          error_visible |-> TRUE]
    ELSE [original |-> r.original, hebrew |-> r.hebrew,
          comic_image |-> r.comic_image,
          comic_visible |-> (r.comic_image # None), error_html |-> <<>>,
          error_visible |-> FALSE]

\* values of run_parliament_session_ui: a returned tuple, or a raised exception
Returned(original, hebrew, comic_image) ==
    [raised |-> "none", original |-> original, hebrew |-> hebrew,
     comic_image |-> comic_image, text |-> <<>>]

Raised(kind, text) ==
    [raised |-> kind, original |-> <<>>, hebrew |-> <<>>,
     comic_image |-> None, text |-> text]

process_topic(e, r) ==
    IF e = "WebA" THEN process_topic_A(r) ELSE process_topic_B(r)

\* messages of the web handlers
RateLimitAdvisory(e, d) ==
    IF e = "WebA"
    THEN <<"Rate limit exceeded. Retrying in ", ToString(FormatFixed0(d)),
           " seconds...">>
    ELSE <<"Rate limit exceeded. The system will retry automatically in ",
           ToString(FormatFixed0(d)), " seconds. Please wait...">>

RateLimitTerminal(e) ==
    IF e = "WebA"
    THEN <<"Rate limit error after ", ToString(max_retries(e)),
           " attempts. Try again in a few minutes.">>
    ELSE <<"Rate limit error after ", ToString(max_retries(e)),
           " attempts. Gemini API quota exceeded. Please try again in a few minutes.">>

\* faulty variant: no entry point passes max_turns
RunnerMaxTurns_NeverPassed(e) == <<>>

\* the max_turns keyword of Runner.run(scripter_agent, update_subject, ...):
\* <<30>> where the call passes max_turns=30, <<>> where it passes none and
\* the agent runtime applies its own default
RunnerMaxTurns(e) == IF e \in {"WebA", "CliA"} THEN <<30>> ELSE <<>>

\* prompt.format() raises when the formatted prompt holds a lone brace
FormatRaises(arg) == \E i \in 1..Len(arg) : arg[i] \in {"{", "}"}

\* the argument substituted into config['agents']['scripter']['instructions']
FormatArgument(e, t, v) == IF e = "WebA" THEN t \o v ELSE t

\* ------------------------------------------------------------------------
\* State
\* ------------------------------------------------------------------------
VARIABLES
    entry,              \* the entry point handling the current session
    pc,                 \* where the handler is
    topic,              \* the topic the handler works on
    validation,         \* the validation of the session (WebA): what the
                        \* constructor and the agent run did, and the
                        \* GuardrailsResponse of validate_user_input
    validation_result,  \* the sanitized input (WebA)
    attempt,            \* the index of the retry loop
    invocations,        \* calls of Runner.run on the scripter, this session
    formatArg,          \* argument of the last .format of the template
    lastExc,            \* the exception the last scripter run raised
    rateLimited,        \* scripter runs ended by RateLimitError, this session
    delay,              \* the delay last computed
    slept,              \* the delays asyncio.sleep was awaited with
    final_output,       \* result.final_output of the scripter run
    original_output,    \* local of run_parliament_session_ui
    hebrew_output,      \* local of run_parliament_session_ui
    outcome,            \* "none", "returned" or "raised"
    response,           \* what the entry point returned or raised
    outputDir,          \* the output_scripts directory
    comicFile,          \* generated_comic_panel.png: "absent" or its image
    lastTool,           \* the last writer-tool call of the translator
    toolCalls,          \* writer-tool calls made in this session
    sessions,           \* sessions started
    toolLog,            \* the writer-tool calls of this session, in order
    readLog,             \* how the reads of the two output files ended (web)
    otherCalls,          \* writer-tool calls of a second, overlapping web session
    comicCall,           \* the call of create_comic_panel of this session (CliA)
    max_turns,           \* the max_turns argument of the last Runner.run: <<n>>, or <<>> when not passed
    guardrailsCall,      \* a call of MyGuardrailsAgent.validate_user_input and what it gave
    guardCall,           \* a call of guard.validate on a guard of src/guardrails_config.py
    imageLoad           \* how loading generated_comic_panel.png ended (WebA)

vars ==
    <<entry, pc, topic, validation, validation_result, attempt, invocations,
      formatArg, lastExc, rateLimited, delay, slept, final_output,
      original_output, hebrew_output, outcome, response, outputDir, comicFile,
      lastTool, toolCalls, sessions,
      toolLog,
      readLog,
      otherCalls,
      comicCall,
      max_turns,
      guardrailsCall,
      guardCall,
      imageLoad>>

sessionVars ==
    <<validation, validation_result, attempt, invocations, formatArg, lastExc,
      rateLimited, delay, slept, final_output, original_output, hebrew_output>>

NoExc == [kind |-> "none", msg |-> <<>>]
NoValidation ==
    [kind |-> "none", ctor |-> [kind |-> "ok", arg |-> <<>>],
     run |-> [kind |-> "none", arg |-> <<>>], response |-> NoResponseYet]
NoTool == [name |-> "none", text |-> "", ok |-> FALSE]
NoResponse == [value |-> <<>>]

NoComicCall ==
    [kind |-> "none", parts |-> <<>>, before |-> "absent", raised |-> FALSE,
     image |-> "none"]

NoGuardCall ==
    [made |-> FALSE, guard |-> "none", value |-> <<>>, raised |-> FALSE,
     validation_passed |-> FALSE, validated_output |-> <<>>]

NoGuardrailsCall ==
    [made |-> FALSE, user_input |-> <<>>, run |-> [kind |-> "none", arg |-> <<>>],
     raised |-> FALSE, response |-> NoResponseYet]

NotRead == [original |-> "none", hebrew |-> "none"]

\* the state of the program before any session
InitProgram ==
    /\ entry = "none"
    /\ pc = "idle"
    /\ topic = <<>>
    /\ validation = NoValidation
    /\ validation_result = <<>>
    /\ attempt = 0
    /\ invocations = 0
    /\ formatArg = <<>>
    /\ lastExc = NoExc
    /\ rateLimited = 0
    /\ delay = NoDelay
    /\ slept = <<>>
    /\ final_output = <<>>
    /\ original_output = <<>>
    /\ hebrew_output = <<>>
    /\ outcome = "none"
    /\ response = NoResponse
    /\ outputDir \in InitialDirs
    /\ comicFile \in {"absent", "old"}
    /\ lastTool = NoTool
    /\ toolCalls = 0
    /\ sessions = 0
    /\ toolLog = <<>>
    /\ readLog = NotRead
    /\ otherCalls = 0
    /\ comicCall = NoComicCall
    /\ max_turns = <<>>
    /\ imageLoad = "none"

Init ==
    /\ InitProgram
    /\ guardrailsCall = NoGuardrailsCall
    /\ guardCall = NoGuardCall

\* faulty variant: only the empty string is blank
IsBlank_EmptyOnly(t) == t = <<>>
\* process_topic: not topic or topic.strip() == ""
IsBlank(t) == t = <<>> \/ Strip(t) = <<>>

\* what process_topic returns for a blank topic
EmptyTopicResponse(e) ==
    IF e = "WebA"
    THEN [original |-> <<>>, hebrew |-> <<>>, comic_image |-> None,
          error |-> PleaseEnterTopic]
    ELSE [original |-> PleaseEnterTopic, hebrew |-> <<>>]

\* the handler ends: it returns value r, or raises it
Finish(how, r) ==
    /\ pc' = "done"
    /\ outcome' = how
    /\ response' = r

\* ------------------------------------------------------------------------
\* Entry: process_topic (web) / __main__ and run_parliament_session (CLI)
\* ------------------------------------------------------------------------
Submit(e, t) ==
    /\ pc \in {"idle", "done"}
    /\ imageLoad' = "none"
    /\ UNCHANGED guardCall
    /\ UNCHANGED guardrailsCall
    /\ max_turns' = <<>>
    /\ comicCall' = NoComicCall
    /\ UNCHANGED otherCalls
    /\ readLog' = NotRead
    /\ toolLog' = <<>>
    /\ sessions < MaxSessions
    /\ sessions' = sessions + 1
    /\ entry' = e
    /\ validation' = NoValidation
    /\ validation_result' = <<>>
    /\ attempt' = 0
    /\ invocations' = 0
    /\ formatArg' = <<>>
    /\ lastExc' = NoExc
    /\ rateLimited' = 0
    /\ delay' = NoDelay
    /\ slept' = <<>>
    /\ final_output' = <<>>
    /\ original_output' = <<>>
    /\ hebrew_output' = <<>>
    /\ lastTool' = NoTool
    /\ toolCalls' = 0
    /\ UNCHANGED <<outputDir, comicFile>>
    /\ CASE e = "WebA" ->
              IF IsBlank(t)
              THEN /\ topic' = t
                   /\ Finish("returned", EmptyTopicResponse(e))
              ELSE /\ topic' = Strip(t)
                   /\ pc' = "validate"
                   /\ outcome' = "none"
                   /\ response' = NoResponse
         [] e = "WebB" ->
              IF IsBlank(t)
              THEN /\ topic' = t
                   /\ Finish("returned", EmptyTopicResponse(e))
              ELSE /\ topic' = Strip(t)
                   /\ pc' = "attempt"
                   /\ outcome' = "none"
                   /\ response' = NoResponse
         [] e = "CliA" ->
              \* topic_name = input(...).strip() or None; default when None
              /\ topic' = IF Strip(t) = <<>> THEN DefaultTopic ELSE Strip(t)
              /\ pc' = "attempt"
              /\ outcome' = "none"
              /\ response' = NoResponse
         [] e = "CliB" ->
              /\ topic' = t
              /\ pc' = "attempt"
              /\ outcome' = "none"
              /\ response' = NoResponse

\* ------------------------------------------------------------------------
\* WebA, step 1: validate the input with the guardrails agent
\* ------------------------------------------------------------------------
Validate(ctor, run) ==
    /\ pc = "validate"
    /\ UNCHANGED imageLoad
    /\ UNCHANGED guardCall
    /\ UNCHANGED guardrailsCall
    /\ UNCHANGED max_turns
    /\ UNCHANGED comicCall
    /\ UNCHANGED otherCalls
    /\ UNCHANGED readLog
    /\ UNCHANGED toolLog
    /\ validation' =
           IF ctor.kind = "ok"
           THEN [kind |-> "response", ctor |-> ctor, run |-> run,
                 response |-> validate_user_input(run)]
           ELSE [kind |-> "raised", ctor |-> ctor,
                 run |-> [kind |-> "none", arg |-> <<>>],
                 response |-> NoResponseYet]
    /\ IF ValidationStep(ctor, run).raised # "none"
       THEN /\ Finish("returned",
                      process_topic(entry,
                          Raised(ValidationStep(ctor, run).raised,
                                 ValidationStep(ctor, run).text)))
            /\ UNCHANGED validation_result
       ELSE /\ validation_result' = ValidationStep(ctor, run).validation_result
            /\ pc' = "attempt"
            /\ UNCHANGED <<outcome, response>>
    /\ UNCHANGED <<entry, topic, attempt, invocations, formatArg, lastExc,
                   rateLimited, delay, slept, final_output, original_output,
                   hebrew_output, outputDir, comicFile, lastTool, toolCalls,
                   sessions>>

\* faulty variant: every entry point re-raises
OnException_AlwaysRaise(text) ==
    Finish("raised", [exception |-> "Exception", text |-> text])

\* what the handler does with an exception e (not a RateLimitError) caught by
\* the retry loop's "except Exception"
OnException(text) ==
    IF entry \in WebEntries
    THEN Finish("returned",
                process_topic(entry, Returned(GenericErrorPrefix \o text, <<>>, None)))
    ELSE Finish("raised", [exception |-> "Exception", text |-> text])

\* ------------------------------------------------------------------------
\* Step 2: one iteration of the retry loop
\* ------------------------------------------------------------------------
\* for attempt in range(max_retries): format the prompt, await Runner.run
InvokeScripter ==
    /\ pc = "attempt"
    /\ UNCHANGED imageLoad
    /\ UNCHANGED guardCall
    /\ UNCHANGED guardrailsCall
    /\ max_turns' =
           IF attempt < max_retries(entry)
              /\ ~FormatRaises(FormatArgument(entry, topic, validation_result))
           THEN RunnerMaxTurns(entry)
           ELSE max_turns
    /\ UNCHANGED comicCall
    /\ UNCHANGED otherCalls
    /\ UNCHANGED readLog
    /\ UNCHANGED toolLog
    /\ IF attempt >= max_retries(entry)
       THEN \* the loop is over: the statement after it
            /\ CASE entry \in WebEntries ->
                      Finish("returned",
                             process_topic(entry, Returned(UnexpectedError, <<>>, None)))
                 [] entry = "CliA" ->
                      Finish("returned", [value |-> UnexpectedError])
                 [] entry = "CliB" ->
                      Finish("returned", [value |-> None])
            /\ UNCHANGED <<formatArg, invocations, lastExc>>
       ELSE /\ formatArg' = FormatArgument(entry, topic, validation_result)
            /\ IF FormatRaises(FormatArgument(entry, topic, validation_result))
               THEN /\ lastExc' = [kind |-> "FormatError", msg |-> <<"format">>]
                    /\ OnException(<<"format">>)
                    /\ UNCHANGED invocations
               ELSE /\ invocations' = invocations + 1
                    /\ pc' = "running"
                    /\ lastExc' = NoExc
                    /\ UNCHANGED <<outcome, response>>
    /\ UNCHANGED <<entry, topic, validation, validation_result, attempt,
                   rateLimited, delay, slept, final_output, original_output,
                   hebrew_output, outputDir, comicFile, lastTool, toolCalls,
                   sessions>>

\* the translator calls the original_script tool
ToolOriginal(t) ==
    /\ pc = "running"
    /\ UNCHANGED imageLoad
    /\ UNCHANGED guardCall
    /\ UNCHANGED guardrailsCall
    /\ UNCHANGED max_turns
    /\ UNCHANGED comicCall
    /\ UNCHANGED otherCalls
    /\ UNCHANGED readLog
    /\ toolLog' = Append(toolLog,
                        [name |-> "original_script", text |-> t,
                         ok |-> original_script(entry, outputDir, t).ok])
    /\ toolCalls < MaxToolCalls
    /\ outputDir' = original_script(entry, outputDir, t).dir
    /\ lastTool' = [name |-> "original_script", text |-> t,
                    ok |-> original_script(entry, outputDir, t).ok]
    /\ toolCalls' = toolCalls + 1
    /\ UNCHANGED <<entry, pc, topic, sessionVars, outcome, response, comicFile,
                   sessions>>

\* the translator calls the write_hebrew_to_file tool
ToolHebrew(t) ==
    /\ pc = "running"
    /\ UNCHANGED imageLoad
    /\ UNCHANGED guardCall
    /\ UNCHANGED guardrailsCall
    /\ UNCHANGED max_turns
    /\ UNCHANGED comicCall
    /\ UNCHANGED otherCalls
    /\ UNCHANGED readLog
    /\ toolLog' = Append(toolLog,
                        [name |-> "write_hebrew_to_file", text |-> t,
                         ok |-> write_hebrew_to_file(entry, outputDir, t).ok])
    /\ toolCalls < MaxToolCalls
    /\ outputDir' = write_hebrew_to_file(entry, outputDir, t).dir
    /\ lastTool' = [name |-> "write_hebrew_to_file", text |-> t,
                    ok |-> write_hebrew_to_file(entry, outputDir, t).ok]
    /\ toolCalls' = toolCalls + 1
    /\ UNCHANGED <<entry, pc, topic, sessionVars, outcome, response, comicFile,
                   sessions>>

\* Runner.run returns
ScripterReturns(f) ==
    /\ pc = "running"
    /\ UNCHANGED imageLoad
    /\ UNCHANGED guardCall
    /\ UNCHANGED guardrailsCall
    /\ UNCHANGED max_turns
    /\ UNCHANGED comicCall
    /\ UNCHANGED otherCalls
    /\ UNCHANGED readLog
    /\ UNCHANGED toolLog
    /\ final_output' = f
    /\ CASE entry \in WebEntries ->
              /\ pc' = "readOriginal"
              /\ UNCHANGED <<outcome, response>>
         [] entry = "CliA" ->
              /\ pc' = "comic"
              /\ UNCHANGED <<outcome, response>>
         [] entry = "CliB" ->
              Finish("returned", [value |-> FinalScriptPrefix \o f])
    /\ UNCHANGED <<entry, topic, validation, validation_result, attempt,
                   invocations, formatArg, lastExc, rateLimited, delay, slept,
                   original_output, hebrew_output, outputDir, comicFile,
                   lastTool, toolCalls, sessions>>

\* Runner.run raises RateLimitError with message msg
ScripterRateLimit(msg) ==
    /\ pc = "running"
    /\ UNCHANGED imageLoad
    /\ UNCHANGED guardCall
    /\ UNCHANGED guardrailsCall
    /\ UNCHANGED max_turns
    /\ UNCHANGED comicCall
    /\ UNCHANGED otherCalls
    /\ UNCHANGED readLog
    /\ UNCHANGED toolLog
    /\ lastExc' = [kind |-> "RateLimitError", msg |-> msg]
    /\ rateLimited' = rateLimited + 1
    /\ IF ~IsLastAttempt(entry, attempt)
       THEN /\ delay' = ComputeDelay(entry, attempt, msg)
            /\ IF ReturnsAdvisory(entry)
               THEN Finish("returned",
                           process_topic(entry,
                               Returned(RateLimitAdvisory(entry,
                                            ComputeDelay(entry, attempt, msg)),
                                        <<>>, None)))
               ELSE /\ pc' = "sleep"
                    /\ UNCHANGED <<outcome, response>>
       ELSE /\ UNCHANGED delay
            /\ CASE entry \in WebEntries ->
                      Finish("returned",
                             process_topic(entry,
                                 Returned(RateLimitTerminal(entry), <<>>, None)))
                 [] entry = "CliA" ->
                      Finish("returned", [value |-> CliRateLimitExceeded])
                 [] entry = "CliB" ->
                      Finish("raised",
                             [exception |-> "RateLimitError", text |-> msg])
    /\ UNCHANGED <<entry, topic, validation, validation_result, attempt,
                   invocations, formatArg, slept, final_output, original_output,
                   hebrew_output, outputDir, comicFile, lastTool, toolCalls,
                   sessions>>

\* Runner.run raises an exception that is not a RateLimitError
ScripterFails(text) ==
    /\ pc = "running"
    /\ UNCHANGED imageLoad
    /\ UNCHANGED guardCall
    /\ UNCHANGED guardrailsCall
    /\ UNCHANGED max_turns
    /\ UNCHANGED comicCall
    /\ UNCHANGED otherCalls
    /\ UNCHANGED readLog
    /\ UNCHANGED toolLog
    /\ lastExc' = [kind |-> "Exception", msg |-> text]
    /\ OnException(text)
    /\ UNCHANGED <<entry, topic, validation, validation_result, attempt,
                   invocations, formatArg, rateLimited, delay, slept,
                   final_output, original_output, hebrew_output, outputDir,
                   comicFile, lastTool, toolCalls, sessions>>

\* await asyncio.sleep(delay) returns and the loop goes on (CLI)
SleepDone ==
    /\ pc = "sleep"
    /\ UNCHANGED imageLoad
    /\ UNCHANGED guardCall
    /\ UNCHANGED guardrailsCall
    /\ UNCHANGED max_turns
    /\ UNCHANGED comicCall
    /\ UNCHANGED otherCalls
    /\ UNCHANGED readLog
    /\ UNCHANGED toolLog
    /\ slept' = Append(slept, delay)
    /\ attempt' = attempt + 1
    /\ pc' = "attempt"
    /\ UNCHANGED <<entry, topic, validation, validation_result, invocations,
                   formatArg, lastExc, rateLimited, delay, final_output,
                   original_output, hebrew_output, outcome, response, outputDir,
                   comicFile, lastTool, toolCalls, sessions>>

\* ------------------------------------------------------------------------
\* Web: read the generated output files
\* ------------------------------------------------------------------------
IoOutcomes == {"ok", "ioerror"}

IoErrorText == <<"io">>

FilePresent(name) == outputDir.exists /\ name \in DOMAIN outputDir.files

\* how an attempt to read a file ends: "missing" (FileNotFoundError), "ok",
\* or "ioerror" (any other exception of open or read)
ReadOutcome(name, io) == IF ~FilePresent(name) THEN "missing" ELSE io

ReadOriginal(io) ==
    /\ pc = "readOriginal"
    /\ UNCHANGED imageLoad
    /\ UNCHANGED guardCall
    /\ UNCHANGED guardrailsCall
    /\ UNCHANGED max_turns
    /\ UNCHANGED comicCall
    /\ UNCHANGED otherCalls
    /\ readLog' = [readLog EXCEPT !.original = ReadOutcome(original_script_txt, io)]
    /\ UNCHANGED toolLog
    /\ IF ~FilePresent(original_script_txt)
       THEN /\ original_output' = OriginalNotFound
            /\ pc' = "readHebrew"
            /\ UNCHANGED <<outcome, response>>
       ELSE IF io = "ok"
       THEN /\ original_output' = <<outputDir.files[original_script_txt]>>
            /\ pc' = "readHebrew"
            /\ UNCHANGED <<outcome, response>>
       ELSE IF entry = "WebA"
       THEN /\ original_output' = <<"Error reading original script: ">> \o IoErrorText
            /\ pc' = "readHebrew"
            /\ UNCHANGED <<outcome, response>>
       ELSE \* src/app.py catches FileNotFoundError only
            /\ OnException(IoErrorText)
            /\ UNCHANGED original_output
    /\ UNCHANGED <<entry, topic, validation, validation_result, attempt,
                   invocations, formatArg, lastExc, rateLimited, delay, slept,
                   final_output, hebrew_output, outputDir, comicFile, lastTool,
                   toolCalls, sessions>>

ReadHebrew(io) ==
    /\ pc = "readHebrew"
    /\ UNCHANGED imageLoad
    /\ UNCHANGED guardCall
    /\ UNCHANGED guardrailsCall
    /\ UNCHANGED max_turns
    /\ UNCHANGED comicCall
    /\ UNCHANGED otherCalls
    /\ readLog' = [readLog EXCEPT !.hebrew = ReadOutcome(hebrew_output_txt, io)]
    /\ UNCHANGED toolLog
    /\ IF ~FilePresent(hebrew_output_txt)
       THEN /\ hebrew_output' = HebrewNotFound
            /\ IF entry = "WebA"
               THEN pc' = "loadImage" /\ UNCHANGED <<outcome, response>>
               ELSE Finish("returned",
                           process_topic(entry,
                               Returned(original_output, HebrewNotFound, None)))
       ELSE IF io = "ok"
       THEN /\ hebrew_output' = <<outputDir.files[hebrew_output_txt]>>
            /\ IF entry = "WebA"
               THEN pc' = "loadImage" /\ UNCHANGED <<outcome, response>>
               ELSE Finish("returned",
                           process_topic(entry,
                               Returned(original_output,
                                        <<outputDir.files[hebrew_output_txt]>>,
                                        None)))
       ELSE IF entry = "WebA"
       THEN /\ hebrew_output' = <<"Error reading Hebrew translation: ">> \o IoErrorText
            /\ pc' = "loadImage"
            /\ UNCHANGED <<outcome, response>>
       ELSE /\ OnException(IoErrorText)
            /\ UNCHANGED hebrew_output
    /\ UNCHANGED <<entry, topic, validation, validation_result, attempt,
                   invocations, formatArg, lastExc, rateLimited, delay, slept,
                   final_output, original_output, outputDir, comicFile,
                   lastTool, toolCalls, sessions>>

\* faulty variant: an exception of Image.open is not caught
LoadComicImage_IgnoresFailure(file, io) ==
    IF file # "absent" THEN <<file>> ELSE None

\* comic_image = None; if os.path.exists(...): Image.open, load, copy; any
\* exception is logged and leaves None
LoadComicImage(file, io) ==
    IF file # "absent" /\ io = "ok" THEN <<file>> ELSE None

\* WebA: load generated_comic_panel.png and return
LoadImage(io) ==
    /\ pc = "loadImage"
    /\ imageLoad' = IF comicFile = "absent" THEN "missing" ELSE io
    /\ UNCHANGED guardCall
    /\ UNCHANGED guardrailsCall
    /\ UNCHANGED max_turns
    /\ UNCHANGED comicCall
    /\ UNCHANGED otherCalls
    /\ UNCHANGED readLog
    /\ UNCHANGED toolLog
    /\ Finish("returned",
              process_topic(entry,
                  Returned(original_output, hebrew_output,
                           LoadComicImage(comicFile, io))))
    /\ UNCHANGED <<entry, topic, sessionVars, outputDir, comicFile, lastTool,
                   toolCalls, sessions>>

\* ------------------------------------------------------------------------
\* CliA: create_comic_panel
\* ------------------------------------------------------------------------
\* what the image endpoint does: the client or the reference images cannot be
\* set up, generate_content raises, response.parts is None, it is a list, or
\* it is a list and as_image()/image.save raises on its first image part
ComicOutcomes ==
    [kind : {"setup_error", "endpoint_error", "parts_none"}, parts : {<<>>}]
      \cup [kind : {"parts"},
            parts : {<<>>, <<"text">>, <<"image">>, <<"text", "image">>}]
      \cup [kind : {"save_error"}, parts : {<<"image">>, <<"text", "image">>}]

RECURSIVE FirstImage(_)
FirstImage(parts) ==
    IF parts = <<>> THEN FALSE
    ELSE IF Head(parts) = "image" THEN TRUE
    ELSE FirstImage(Tail(parts))

\* [raised, file, image]: whether create_comic_panel raises, the file it
\* leaves, and the image it returns ("none" for None)
create_comic_panel(o, file) ==
    CASE o.kind \in {"setup_error", "parts_none"} ->
           \* genai.Client / get_parliament_images / enumerate(None) raise
           [raised |-> TRUE, file |-> file, image |-> "none"]
      [] o.kind = "endpoint_error" ->
           [raised |-> FALSE, file |-> file, image |-> "none"]
      [] o.kind = "parts" ->
           IF FirstImage(o.parts)
           THEN [raised |-> FALSE, file |-> "new", image |-> "new"]
           ELSE [raised |-> FALSE, file |-> file, image |-> "none"]
      [] o.kind = "save_error" ->
           \* the existing file is removed before as_image() and save()
           [raised |-> TRUE, file |-> "absent", image |-> "none"]

ComicPanel(o) ==
    /\ pc = "comic"
    /\ UNCHANGED imageLoad
    /\ UNCHANGED guardCall
    /\ UNCHANGED guardrailsCall
    /\ UNCHANGED max_turns
    /\ comicCall' = [kind |-> o.kind, parts |-> o.parts, before |-> comicFile,
                     raised |-> create_comic_panel(o, comicFile).raised,
                     image |-> create_comic_panel(o, comicFile).image]
    /\ UNCHANGED otherCalls
    /\ UNCHANGED readLog
    /\ UNCHANGED toolLog
    /\ comicFile' = create_comic_panel(o, comicFile).file
    /\ IF create_comic_panel(o, comicFile).raised
       THEN Finish("raised", [exception |-> "Exception", text |-> <<"comic">>])
       ELSE Finish("returned", [value |-> FinalScriptPrefix \o final_output])
    /\ UNCHANGED <<entry, topic, sessionVars, outputDir, lastTool, toolCalls,
                   sessions>>

Next ==
    \/ \E e \in Entries, t \in Topics : Submit(e, t)
    \/ \E c \in Constructions, r \in ValidationRuns : Validate(c, r)
    \/ InvokeScripter
    \/ \E t \in Texts : ToolOriginal(t)
    \/ \E t \in Texts : ToolHebrew(t)
    \/ \E f \in FinalOutputs : ScripterReturns(f)
    \/ \E m \in RateLimitMessages : ScripterRateLimit(m)
    \/ \E x \in ErrorTexts : ScripterFails(x)
    \/ SleepDone
    \/ \E io \in IoOutcomes : ReadOriginal(io)
    \/ \E io \in IoOutcomes : ReadHebrew(io)
    \/ \E io \in IoOutcomes : LoadImage(io)
    \/ \E o \in ComicOutcomes : ComicPanel(o)

Spec == Init /\ [][Next]_vars

\* ------------------------------------------------------------------------
\* Two overlapping sessions of src/app/app.py
\* ------------------------------------------------------------------------
\* A second session runs while the first is between its submission and its
\* response.  Nothing in the code serialises the two: each translator calls
\* the writer tools on the same fixed paths.  Of the second session only its
\* writer-tool calls matter to the first; each call is one step.
OtherTexts == {"u1"}

InFlight == pc \notin {"idle", "done"}

OtherToolOriginal(u) ==
    /\ InFlight
    /\ entry = "WebA"
    /\ otherCalls < MaxToolCalls
    /\ otherCalls' = otherCalls + 1
    /\ outputDir' = original_script("WebA", outputDir, u).dir
    /\ UNCHANGED <<entry, pc, topic, sessionVars, outcome, response, comicFile,
                   lastTool, toolCalls, sessions, toolLog, readLog, comicCall,
                   max_turns, guardrailsCall, guardCall, imageLoad>>

OtherToolHebrew(u) ==
    /\ InFlight
    /\ entry = "WebA"
    /\ otherCalls < MaxToolCalls
    /\ otherCalls' = otherCalls + 1
    /\ outputDir' = write_hebrew_to_file("WebA", outputDir, u).dir
    /\ UNCHANGED <<entry, pc, topic, sessionVars, outcome, response, comicFile,
                   lastTool, toolCalls, sessions, toolLog, readLog, comicCall,
                   max_turns, guardrailsCall, guardCall, imageLoad>>

NextRace ==
    \/ \E t \in Topics : Submit("WebA", t)
    \/ \E c \in Constructions, r \in ValidationRuns : Validate(c, r)
    \/ InvokeScripter
    \/ \E t \in Texts : ToolOriginal(t)
    \/ \E t \in Texts : ToolHebrew(t)
    \/ \E f \in FinalOutputs : ScripterReturns(f)
    \/ \E m \in RateLimitMessages : ScripterRateLimit(m)
    \/ \E x \in ErrorTexts : ScripterFails(x)
    \/ \E io \in IoOutcomes : ReadOriginal(io)
    \/ \E io \in IoOutcomes : ReadHebrew(io)
    \/ \E io \in IoOutcomes : LoadImage(io)
    \/ \E u \in OtherTexts : OtherToolOriginal(u)
    \/ \E u \in OtherTexts : OtherToolHebrew(u)

\* ------------------------------------------------------------------------
\* Progress: every external call returns and the handler goes on
\* ------------------------------------------------------------------------
\* a step of the session in flight: a statement of the handler, or the
\* return of the call it awaits (validation run, scripter run, tool call,
\* sleep, file access, image call)
SessionStep ==
    \/ \E c \in Constructions, r \in ValidationRuns : Validate(c, r)
    \/ InvokeScripter
    \/ \E t \in Texts : ToolOriginal(t)
    \/ \E t \in Texts : ToolHebrew(t)
    \/ \E f \in FinalOutputs : ScripterReturns(f)
    \/ \E m \in RateLimitMessages : ScripterRateLimit(m)
    \/ \E x \in ErrorTexts : ScripterFails(x)
    \/ SleepDone
    \/ \E io \in IoOutcomes : ReadOriginal(io)
    \/ \E io \in IoOutcomes : ReadHebrew(io)
    \/ \E io \in IoOutcomes : LoadImage(io)
    \/ \E o \in ComicOutcomes : ComicPanel(o)

\* one session, from any initial state of the directory, followed to its end
NextLive ==
    \/ \E e \in Entries, t \in Topics : (sessions = 0 /\ Submit(e, t))
    \/ SessionStep

SpecLive == Init /\ [][NextLive]_vars /\ WF_vars(SessionStep)

SpecRace == Init /\ [][NextRace]_vars

\* ------------------------------------------------------------------------
\* MyGuardrailsAgent.validate_user_input called on its own
\* (src/app/guardrails_config.py, as src/tests/test_myguardrails_agent.py does)
\* ------------------------------------------------------------------------
MaxInputLen == 3

\* all strings over an alphabet, up to a length
Strings(alphabet, n) == UNION { [1..k -> alphabet] : k \in 0..n }

UserInputs == Strings(Whitespace \cup {"a"}, MaxInputLen)

\* the variables of the sessions, which a direct call leaves alone
programVars ==
    <<entry, pc, topic, validation, validation_result, attempt, invocations,
      formatArg, lastExc, rateLimited, delay, slept, final_output,
      original_output, hebrew_output, outcome, response, outputDir, comicFile,
      lastTool, toolCalls, sessions, toolLog, readLog, otherCalls, comicCall,
      max_turns, imageLoad>>

\* faulty variant: the last except clause is missing
GuardrailsCall_ErrorEscapes(u, run) ==
    [made |-> TRUE, user_input |-> u, run |-> run,
     raised |-> (run.kind = "error"),
     response |-> IF run.kind = "error" THEN NoResponseYet
                  ELSE validate_user_input(run)]

\* validate_user_input(u): the whole body is one try statement whose three
\* branches (no exception, a tripwire, any other Exception) each return a
\* GuardrailsResponse; u is only handed to Runner.run
GuardrailsCall(u, run) ==
    [made |-> TRUE, user_input |-> u, run |-> run, raised |-> FALSE,
     response |-> validate_user_input(run)]

\* the input of the call is chosen at the start
InitValidate ==
    /\ InitProgram
    /\ guardrailsCall \in
         { [NoGuardrailsCall EXCEPT !.user_input = u] : u \in UserInputs }
    /\ guardCall = NoGuardCall

CallValidateUserInput(run) ==
    /\ guardrailsCall' = GuardrailsCall(guardrailsCall.user_input, run)
    /\ UNCHANGED <<programVars, guardCall>>

NextValidate ==
    \E run \in ValidationRuns : CallValidateUserInput(run)

SpecValidate == InitValidate /\ [][NextValidate]_vars

\* ------------------------------------------------------------------------
\* The guards of src/guardrails_config.py, called on their own
\* (as src/tests/test_guards.py and src/tests/test_content_safety.py do)
\* ------------------------------------------------------------------------
MaxValueLen == 4

\* values are sequences of characters
UpperLetters ==
    <<"A", "B", "C", "D", "E", "F", "G", "H", "I", "J", "K", "L", "M",
      "N", "O", "P", "Q", "R", "S", "T", "U", "V", "W", "X", "Y", "Z">>
LowerLetters ==
    <<"a", "b", "c", "d", "e", "f", "g", "h", "i", "j", "k", "l", "m",
      "n", "o", "p", "q", "r", "s", "t", "u", "v", "w", "x", "y", "z">>

LowerChar(c) ==
    IF \E i \in DOMAIN UpperLetters : UpperLetters[i] = c
    THEN LowerLetters[CHOOSE i \in DOMAIN UpperLetters : UpperLetters[i] = c]
    ELSE c
UpperChar(c) ==
    IF \E i \in DOMAIN LowerLetters : LowerLetters[i] = c
    THEN UpperLetters[CHOOSE i \in DOMAIN LowerLetters : LowerLetters[i] = c]
    ELSE c

\* str.lower(), str.upper(), str.capitalize()
Lower(s) == [i \in DOMAIN s |-> LowerChar(s[i])]
Upper(s) == [i \in DOMAIN s |-> UpperChar(s[i])]
Capitalize(s) ==
    [i \in DOMAIN s |-> IF i = 1 THEN UpperChar(s[i]) ELSE LowerChar(s[i])]

\* sub in s
Contains(s, sub) ==
    \E i \in 0..(Len(s) - Len(sub)) : SubSeq(s, i + 1, i + Len(sub)) = sub

\* s.replace(old, new): every non-overlapping occurrence, from the left
RECURSIVE Replace(_, _, _)
Replace(s, old, new) ==
    IF Len(s) < Len(old) THEN s
    ELSE IF SubSeq(s, 1, Len(old)) = old
    THEN new \o Replace(SubSeq(s, Len(old) + 1, Len(s)), old, new)
    ELSE <<Head(s)>> \o Replace(Tail(s), old, new)

\* '*' * len(word)
Stars(word) == [i \in DOMAIN word |-> "*"]

\* self.toxic_terms and self.profane_words, in list order
toxic_terms ==
    << <<"h", "a", "t", "e">>, <<"k", "i", "l", "l">>,
       <<"a", "t", "t", "a", "c", "k">>, <<"d", "e", "s", "t", "r", "o", "y">>,
       <<"v", "i", "o", "l", "e", "n", "c", "e">> >>
profane_words ==
    << <<"d", "a", "m", "n">>, <<"h", "e", "l", "l">>, <<"c", "r", "a", "p">>,
       <<"s", "h", "i", "t">>, <<"f", "u", "c", "k">> >>

\* [term for term in terms if term in value_lower]
RECURSIVE Found(_, _)
Found(terms, value_lower) ==
    IF terms = <<>> THEN <<>>
    ELSE (IF Contains(value_lower, Head(terms)) THEN <<Head(terms)>> ELSE <<>>)
           \o Found(Tail(terms), value_lower)

\* faulty variant: the value is not lowered before the search
ToxicLanguageValidator_CaseSensitive(value) ==
    IF Found(toxic_terms, value) # <<>>
    THEN [pass |-> FALSE, found |-> Found(toxic_terms, value),
          fix_value |-> value]
    ELSE [pass |-> TRUE, found |-> <<>>, fix_value |-> value]

\* ToxicLanguageValidator.validate: FailResult or PassResult
ToxicLanguageValidator(value) ==
    IF Found(toxic_terms, Lower(value)) # <<>>
    THEN [pass |-> FALSE, found |-> Found(toxic_terms, Lower(value)),
          fix_value |-> value]
    ELSE [pass |-> TRUE, found |-> <<>>, fix_value |-> value]

\* for word in found_profanity: replace word, word.capitalize(), word.upper()
RECURSIVE FilterProfanity(_, _)
FilterProfanity(value, found) ==
    IF found = <<>> THEN value
    ELSE FilterProfanity(
             Replace(Replace(Replace(value, Head(found), Stars(Head(found))),
                             Capitalize(Head(found)), Stars(Head(found))),
                     Upper(Head(found)), Stars(Head(found))),
             Tail(found))

\* ProfanityFreeValidator.validate: FailResult with the filtered value, or
\* PassResult
ProfanityFreeValidator(value) ==
    IF Found(profane_words, Lower(value)) # <<>>
    THEN [pass |-> FALSE, found |-> Found(profane_words, Lower(value)),
          fix_value |-> FilterProfanity(value, Found(profane_words, Lower(value)))]
    ELSE [pass |-> TRUE, found |-> <<>>, fix_value |-> value]

Guards == {"create_parliament_guard", "create_content_safety_guard"}

\* on_fail of the ProfanityFreeValidator in each guard; the
\* ToxicLanguageValidator has on_fail="exception" in both
profanity_on_fail(g) ==
    IF g = "create_parliament_guard" THEN "filter" ELSE "exception"

\* guard.validate(value) of Guard().use_many(toxic, profanity): a failing
\* validator with on_fail="exception" raises; one with on_fail="filter"
\* drops the value (validated_output is None); when both pass the value is
\* returned as it is
GuardValidate(g, value) ==
    IF ~ToxicLanguageValidator(value).pass
    THEN [made |-> TRUE, guard |-> g, value |-> value, raised |-> TRUE,
          validation_passed |-> FALSE, validated_output |-> None]
    ELSE IF ~ProfanityFreeValidator(value).pass
    THEN [made |-> TRUE, guard |-> g, value |-> value,
          raised |-> (profanity_on_fail(g) = "exception"),
          validation_passed |-> FALSE, validated_output |-> None]
    ELSE [made |-> TRUE, guard |-> g, value |-> value, raised |-> FALSE,
          validation_passed |-> TRUE, validated_output |-> value]

GuardAlphabet == {"h", "a", "t", "e", "l", "H", "A"}
GuardValues == Strings(GuardAlphabet, MaxValueLen)

\* the value handed to the guard is chosen at the start
InitGuard ==
    /\ InitProgram
    /\ guardrailsCall = NoGuardrailsCall
    /\ guardCall \in { [NoGuardCall EXCEPT !.value = v] : v \in GuardValues }

CallGuard(g) ==
    /\ guardCall' = GuardValidate(g, guardCall.value)
    /\ UNCHANGED <<programVars, guardrailsCall>>

NextGuard == \E g \in Guards : CallGuard(g)

SpecGuard == InitGuard /\ [][NextGuard]_vars

\* ------------------------------------------------------------------------
\* Properties
\* ------------------------------------------------------------------------
RateLimitedNow == lastExc.kind = "RateLimitError"

GuardrailRejected ==
    /\ entry = "WebA"
    /\ validation.kind = "response"
    /\ ~validation.response.success

\* C1: in the web session handler of src/app/app.py, whenever the guardrail
\* returns success = false the scripter is never invoked in that session and
\* process_topic returns the warnings as a validation failure (error field
\* prefixed "Input Validation Failed"), not as a generic "Error: " result.
C1_RejectedInputNeverGenerates ==
    GuardrailRejected =>
        /\ pc = "done"
        /\ outcome = "returned"
        /\ invocations = 0
        /\ formatArg = <<>>
        /\ response.error =
             ValidationFailedPrefix \o Join(validation.response.warnings)
        /\ Head(response.error) # Head(GenericErrorPrefix)
        /\ response.original = <<>>
        /\ response.hebrew = <<>>

C1_Witness ==
    /\ GuardrailRejected
    /\ validation.run.kind = "tripwire"
    /\ pc = "done"

\* C2: when validation succeeds in the web session handler, the argument
\* substituted into the scripter's instruction template is exactly the
\* guardrail's sanitized_input; the raw topic is no part of it.
C2_OnlySanitizedInputIsSubstituted ==
    (entry = "WebA" /\ validation.kind = "response"
       /\ validation.response.success /\ pc \in {"running", "readOriginal"})
        => formatArg = validation.response.sanitized_input

\* C3: on a rate-limit failure before the last attempt a web handler returns
\* its advisory at once, having slept for nothing and invoked the scripter
\* once; a CLI handler does not return: it awaits the delay it computed and
\* then invokes the scripter again, so that every run of a CLI session has
\* been preceded by one sleep per earlier rate-limited run.
C3_RetryAsymmetry ==
    /\ (entry \in WebEntries /\ RateLimitedNow) =>
          /\ pc = "done"
          /\ outcome = "returned"
          /\ attempt = 0
          /\ slept = <<>>
          /\ invocations = 1
          /\ response.original = RateLimitAdvisory(entry, delay)
          /\ response.hebrew = <<>>
    /\ (entry \in CliEntries /\ RateLimitedNow /\ pc # "done") =>
          /\ outcome = "none"
          /\ pc \in {"sleep", "attempt"}
          /\ pc = "sleep" => (Len(slept) = rateLimited - 1 /\ invocations = rateLimited)
          /\ pc = "attempt" => (Len(slept) = rateLimited /\ slept[Len(slept)] = delay)
    /\ (entry \in CliEntries /\ pc = "running") =>
          /\ invocations = rateLimited + 1
          /\ Len(slept) = rateLimited
          /\ attempt = rateLimited

C3_Witness ==
    /\ entry = "CliA"
    /\ pc = "running"
    /\ rateLimited = 2
    /\ Len(slept) = 2
    /\ invocations = 3

\* C4 (as stated): in every entry point Runner.run on the scripter is invoked
\* at most 3 times in one session, and in the CLI entry points exactly 3
\* times when every attempt fails with a rate-limit error.
C4_AtMostThreeInvocations ==
    /\ invocations <= 3
    /\ (entry \in CliEntries /\ pc = "done" /\ RateLimitedNow) => invocations = 3

\* C4 (amended): Runner.run on the scripter is invoked at most 3 times in one
\* session of the web handlers and of the CLI of
\* src/app/parliament_agent_open_ai_sdk.py and at most 5 times in the CLI of
\* src/parlament_agent.py; when every attempt fails with a rate-limit error
\* the two CLI handlers invoke it exactly 3 and exactly 5 times.
C4_AtMostMaxRetriesInvocations ==
    /\ entry \in {"WebA", "WebB", "CliA"} => invocations <= 3
    /\ entry = "CliB" => invocations <= 5
    /\ (entry = "CliA" /\ pc = "done" /\ RateLimitedNow) =>
          (invocations = 3 /\ rateLimited = 3)
    /\ (entry = "CliB" /\ pc = "done" /\ RateLimitedNow) =>
          (invocations = 5 /\ rateLimited = 5)

C4_Witness ==
    /\ entry = "CliA"
    /\ pc = "done"
    /\ RateLimitedNow
    /\ invocations = 3

\* messages of the model without / with a parseable "retry in Ns"
MessagesWithoutHint == {Msg_quota, Msg_retry_dot5}

\* C5: in the web handlers, for a rate-limit error whose message has no
\* parseable "retry in Ns", the delay computed on attempt i (before the last
\* attempt) is 30 * 2^i seconds.
C5_WebExponentialDelay ==
    (entry \in WebEntries /\ RateLimitedNow /\ attempt < 2
       /\ lastExc.msg \in MessagesWithoutHint)
        => /\ delay.den = 1
           /\ delay.num = 30 * (2 ^ attempt)

C5_Witness ==
    /\ entry = "WebB"
    /\ RateLimitedNow
    /\ lastExc.msg = Msg_retry_dot5
    /\ delay = [num |-> 30, den |-> 1]

\* the state right after a handler computed a delay for lastExc
DelayJustComputed ==
    /\ RateLimitedNow
    /\ \/ entry \in WebEntries /\ pc = "done" /\ attempt < 2
       \/ entry \in CliEntries /\ pc = "sleep"

FinalAttemptRateLimited ==
    /\ pc = "done"
    /\ RateLimitedNow
    /\ attempt = max_retries(entry) - 1

\* C7 (as stated): when the final allowed attempt fails with a rate-limit
\* error the handler returns a terminal failure message and does not raise,
\* in every entry point that has a retry loop.
C7_FinalRateLimitReturns ==
    FinalAttemptRateLimited => outcome = "returned"

\* C7 (amended): when the final allowed attempt fails with a rate-limit
\* error, the CLI of src/app/parliament_agent_open_ai_sdk.py returns "Rate
\* limit exceeded. Please try again later." and does not raise, while the
\* CLI of src/parlament_agent.py re-raises the RateLimitError; a web handler
\* never reaches a final attempt (it leaves the loop in attempt 0).
C7_FinalRateLimitPerEntryPoint ==
    /\ (entry = "CliA" /\ pc = "done" /\ RateLimitedNow /\ rateLimited = 3) =>
          /\ outcome = "returned"
          /\ response.value = CliRateLimitExceeded
    /\ (entry = "CliB" /\ pc = "done" /\ RateLimitedNow /\ rateLimited = 5) =>
          /\ outcome = "raised"
          /\ response.exception = "RateLimitError"
          /\ response.text = lastExc.msg
    /\ entry \in WebEntries => (attempt = 0 /\ rateLimited <= 1)
    /\ (entry \in CliEntries /\ pc = "done" /\ RateLimitedNow) =>
          rateLimited = IF entry = "CliA" THEN 3 ELSE 5

C7_Witness ==
    /\ entry = "CliA"
    /\ FinalAttemptRateLimited
    /\ outcome = "returned"
    /\ response.value = CliRateLimitExceeded

ScripterFailed == lastExc.kind = "Exception"

\* C8 (as stated): an exception of the scripter run that is not a rate-limit
\* error ends the session at once (no retry) and is returned as a failure
\* message, not raised, in the web and in the CLI retry loops.
C8_OtherExceptionReturned ==
    ScripterFailed => (pc = "done" /\ outcome = "returned")

\* C8 (amended): an exception of the scripter run that is not a rate-limit
\* error is never retried: the session ends at once, with no sleep after it.
\* The web handlers return it as the message "Error: <text>" in the
\* original-script field; the CLI handlers log it and re-raise it.
C8_OtherExceptionNotRetried ==
    ScripterFailed =>
        /\ pc = "done"
        /\ invocations = rateLimited + 1
        /\ Len(slept) = rateLimited
        /\ entry \in WebEntries =>
              /\ outcome = "returned"
              /\ invocations = 1
              /\ response.original = GenericErrorPrefix \o lastExc.msg
              /\ response.hebrew = <<>>
        /\ entry \in CliEntries =>
              /\ outcome = "raised"
              /\ response.exception = "Exception"
              /\ response.text = lastExc.msg

C8_Witness ==
    /\ ScripterFailed
    /\ entry = "WebA"
    /\ outcome = "returned"
    /\ response.original = GenericErrorPrefix \o <<"boom">>

\* C9: an exception raised while validating the topic never reaches
\* process_topic's generic branch.  Raised by the agent run, it becomes
\* success = false with the single warning "Validation error: <text>";
\* escaping validate_user_input, it is re-labelled GuardrailsValidationError
\* with the same text.  Either way process_topic returns "Input Validation
\* Failed" followed by that text, and the scripter is not invoked.
C9_ValidationExceptionsAreValidationFailures ==
    /\ (entry = "WebA" /\ validation.kind = "response"
          /\ validation.run.kind = "error") =>
          /\ ~validation.response.success
          /\ validation.response.warnings =
               << <<"Validation error: ">> \o validation.run.arg >>
          /\ pc = "done"
          /\ outcome = "returned"
          /\ invocations = 0
          /\ response.error =
               ValidationFailedPrefix \o <<"Validation error: ">>
                 \o validation.run.arg
    /\ (entry = "WebA" /\ validation.kind = "raised") =>
          /\ pc = "done"
          /\ outcome = "returned"
          /\ invocations = 0
          /\ response.error =
               ValidationFailedPrefix \o <<"Validation error: ">>
                 \o validation.ctor.arg

C9_Witness ==
    /\ entry = "WebA"
    /\ validation.kind = "raised"
    /\ pc = "done"
    /\ response.error = <<"Input Validation Failed\n\n", "Validation error: ", "boom">>

\* C10: after a call original_script(t) on an existing output directory,
\* whatever it held, the directory holds exactly one .txt file,
\* original_script.txt, with content t: of two successive calls only the
\* second text is left, and hebrew_output.txt and every other .txt file
\* that was there are gone.
C10_OriginalScriptLeavesOneTxtFile ==
    (lastTool.name = "original_script" /\ lastTool.ok) =>
        /\ outputDir.exists
        /\ TxtFiles(outputDir) = {original_script_txt}
        /\ outputDir.files[original_script_txt] = lastTool.text
        /\ hebrew_output_txt \notin DOMAIN outputDir.files
        /\ notes_txt \notin DOMAIN outputDir.files

C10_Witness ==
    /\ lastTool.name = "original_script"
    /\ lastTool.ok
    /\ lastTool.text = "t2"
    /\ toolCalls = 2
    /\ keep_md \in DOMAIN outputDir.files
    /\ outputDir.files[original_script_txt] = "t2"

\* the last two writer-tool calls of the session were a then b, both done
LastTwoCalls(a, b) ==
    /\ Len(toolLog) >= 2
    /\ toolLog[Len(toolLog) - 1].name = a
    /\ toolLog[Len(toolLog) - 1].ok
    /\ toolLog[Len(toolLog)].name = b
    /\ toolLog[Len(toolLog)].ok

\* C11 (as stated): the order of the two writer calls does not matter:
\* original_script(e) then write_hebrew_to_file(h), and
\* write_hebrew_to_file(h) then original_script(e), both leave
\* original_script.txt = e and hebrew_output.txt = h.
C11_WriterOrderIrrelevant ==
    /\ LastTwoCalls("original_script", "write_hebrew_to_file") =>
          /\ FilePresent(original_script_txt) /\ FilePresent(hebrew_output_txt)
          /\ outputDir.files[original_script_txt] = toolLog[Len(toolLog) - 1].text
          /\ outputDir.files[hebrew_output_txt] = toolLog[Len(toolLog)].text
    /\ LastTwoCalls("write_hebrew_to_file", "original_script") =>
          /\ FilePresent(original_script_txt) /\ FilePresent(hebrew_output_txt)
          /\ outputDir.files[original_script_txt] = toolLog[Len(toolLog)].text
          /\ outputDir.files[hebrew_output_txt] = toolLog[Len(toolLog) - 1].text

\* C11 (amended): the order matters.  original_script(e) then
\* write_hebrew_to_file(h) leaves original_script.txt = e and
\* hebrew_output.txt = h; write_hebrew_to_file(h) then original_script(e)
\* leaves original_script.txt = e and no hebrew_output.txt, because
\* original_script removes every .txt file before it writes.
C11_WriterOrderMatters ==
    /\ LastTwoCalls("original_script", "write_hebrew_to_file") =>
          /\ FilePresent(original_script_txt) /\ FilePresent(hebrew_output_txt)
          /\ outputDir.files[original_script_txt] = toolLog[Len(toolLog) - 1].text
          /\ outputDir.files[hebrew_output_txt] = toolLog[Len(toolLog)].text
    /\ LastTwoCalls("write_hebrew_to_file", "original_script") =>
          /\ FilePresent(original_script_txt)
          /\ outputDir.files[original_script_txt] = toolLog[Len(toolLog)].text
          /\ ~FilePresent(hebrew_output_txt)

C11_Witness ==
    /\ LastTwoCalls("write_hebrew_to_file", "original_script")
    /\ toolLog[1].text = "t1"
    /\ outputDir.files[original_script_txt] = "t2"
    /\ ~FilePresent(hebrew_output_txt)

\* C12: if hebrew_output.txt does not exist when a web handler reads the
\* outputs after a completed scripter run, the Hebrew field of the response
\* is exactly "Hebrew translation file not found." and the English field is
\* what reading original_script.txt yielded: its content, or its own
\* placeholder (in src/app/app.py also its own read-error text).
C12_MissingHebrewPlaceholder ==
    (entry \in WebEntries /\ readLog.hebrew = "missing") =>
        /\ hebrew_output = <<"Hebrew translation file not found.">>
        /\ readLog.original = "ok" =>
              original_output = <<outputDir.files[original_script_txt]>>
        /\ readLog.original = "missing" =>
              original_output = <<"Original script file not found.">>
        /\ readLog.original = "ioerror" =>
              original_output = <<"Error reading original script: ">> \o IoErrorText
        /\ pc = "done" =>
              /\ outcome = "returned"
              /\ response.hebrew = <<"Hebrew translation file not found.">>
              /\ response.original = original_output

C12_Witness ==
    /\ entry = "WebA"
    /\ pc = "done"
    /\ readLog = [original |-> "ok", hebrew |-> "missing"]
    /\ response.original = <<"t1">>
    /\ response.hebrew = <<"Hebrew translation file not found.">>

\* a web session was started with an empty or whitespace-only topic
BlankTopicSubmitted ==
    entry \in WebEntries /\ pc # "idle" /\ Strip(topic) = <<>>

\* C13 (as stated): for a blank topic process_topic returns at once, the
\* response carries "Please enter a topic" as its message, and both script
\* fields of the response are empty, in both web variants.
C13_BlankTopicEmptyScriptFields ==
    BlankTopicSubmitted =>
        /\ pc = "done" /\ outcome = "returned"
        /\ response.original = <<>>
        /\ response.hebrew = <<>>

\* C13 (amended): for a blank topic process_topic returns before any
\* validation, generation or file access; src/app/app.py returns empty script
\* fields, no image and the literal in the error field; src/app.py has no
\* error field and returns the literal in the original-script field with an
\* empty Hebrew field.
C13_BlankTopicShortCircuits ==
    BlankTopicSubmitted =>
        /\ pc = "done" /\ outcome = "returned"
        /\ validation = NoValidation
        /\ invocations = 0
        /\ toolLog = <<>>
        /\ readLog = NotRead
        /\ entry = "WebA" =>
              response = [original |-> <<>>, hebrew |-> <<>>,
                          comic_image |-> None,
                          error |-> <<"Please enter a topic">>]
        /\ entry = "WebB" =>
              response = [original |-> <<"Please enter a topic">>,
                          hebrew |-> <<>>]

C13_Witness ==
    /\ entry = "WebB"
    /\ topic = <<" ">>
    /\ pc = "done"
    /\ response.original = <<"Please enter a topic">>

\* the web handler read both files and neither read raised an I/O error
ReadsWithoutIoError ==
    /\ readLog.original \in {"ok", "missing"}
    /\ readLog.hebrew \in {"ok", "missing"}

\* C14: in a web session running alone, when validation succeeds, the
\* scripter run completes and the translator's last two tool calls are
\* original_script(e) and then write_hebrew_to_file(h), process_topic returns
\* original = e and hebrew = h, and (src/app/app.py) an empty error field.
C14_EndToEndSuccess ==
    ( /\ entry \in WebEntries
      /\ pc = "done"
      /\ LastTwoCalls("original_script", "write_hebrew_to_file")
      /\ ReadsWithoutIoError ) =>
        /\ outcome = "returned"
        /\ response.original = <<toolLog[Len(toolLog) - 1].text>>
        /\ response.hebrew = <<toolLog[Len(toolLog)].text>>
        /\ entry = "WebA" =>
              /\ validation.kind = "response"
              /\ validation.response.success
              /\ response.error = <<>>

C14_Witness ==
    /\ entry = "WebA"
    /\ pc = "done"
    /\ validation.kind = "response" /\ validation.response.success
    /\ toolLog = << [name |-> "original_script", text |-> "t1", ok |-> TRUE],
                    [name |-> "write_hebrew_to_file", text |-> "t2", ok |-> TRUE] >>
    /\ response.original = <<"t1">>
    /\ response.hebrew = <<"t2">>
    /\ response.error = <<>>

\* the kinds of response of a web handler, told apart by the response itself
FileTexts == { <<t>> : t \in Texts \cup {"old"} }
OriginalPlaceholders ==
    { <<"Original script file not found.">>,
      <<"Error reading original script: ">> \o IoErrorText }
HebrewPlaceholders ==
    { <<"Hebrew translation file not found.">>,
      <<"Error reading Hebrew translation: ">> \o IoErrorText }
NoErrorField == entry = "WebA" => response.error = <<>>

IsFullResults ==
    /\ response.original \in FileTexts
    /\ response.hebrew \in FileTexts
    /\ NoErrorField
IsPartialResults ==
    /\ response.original \in FileTexts \cup OriginalPlaceholders
    /\ response.hebrew \in FileTexts \cup HebrewPlaceholders
    /\ \/ response.original \in OriginalPlaceholders
       \/ response.hebrew \in HebrewPlaceholders
    /\ NoErrorField
IsRateLimitAdvisory ==
    /\ Len(response.original) = 3
    /\ response.original[1] \in
         { "Rate limit exceeded. Retrying in ",
           "Rate limit exceeded. The system will retry automatically in " }
    /\ response.hebrew = <<>>
    /\ NoErrorField
IsValidationRejection ==
    /\ entry = "WebA"
    /\ response.original = <<>> /\ response.hebrew = <<>>
    /\ response.error # <<>>
    /\ response.error[1] = "Input Validation Failed\n\n"
IsBlankTopicPrompt ==
    \/ /\ entry = "WebA"
       /\ response.original = <<>> /\ response.hebrew = <<>>
       /\ response.error = <<"Please enter a topic">>
    \/ /\ entry = "WebB"
       /\ response.original = <<"Please enter a topic">>
       /\ response.hebrew = <<>>
IsGenericErrorMessage ==
    /\ response.original # <<>>
    /\ response.original[1] = "Error: "
    /\ response.hebrew = <<>>
    /\ NoErrorField

WebHandlerDone == entry \in WebEntries /\ pc = "done"

\* C15 (as stated): process_topic never raises, and its response is one of:
\* full results, partial results with per-artifact placeholders, a rate-limit
\* advisory, or a validation-rejection message.
C15_FourKindsOfResponse ==
    WebHandlerDone =>
        /\ outcome = "returned"
        /\ \/ IsFullResults
           \/ IsPartialResults
           \/ IsRateLimitAdvisory
           \/ IsValidationRejection

\* C15 (amended): process_topic never raises, and its response is exactly one
\* of six kinds: full results, partial results with per-artifact
\* placeholders, a rate-limit advisory, a validation-rejection message
\* (src/app/app.py only), the blank-topic prompt, or the generic message
\* "Error: <text>" returned in the original-script field for any other
\* exception of the scripter run (and, in src/app.py, of a file read).
C15_SixKindsOfResponse ==
    WebHandlerDone =>
        /\ outcome = "returned"
        /\ Cardinality({ k \in 1..6 :
                CASE k = 1 -> IsFullResults
                  [] k = 2 -> IsPartialResults
                  [] k = 3 -> IsRateLimitAdvisory
                  [] k = 4 -> IsValidationRejection
                  [] k = 5 -> IsBlankTopicPrompt
                  [] k = 6 -> IsGenericErrorMessage }) = 1

C15_Witness ==
    /\ WebHandlerDone
    /\ lastExc.kind = "Exception"
    /\ outcome = "returned"
    /\ IsGenericErrorMessage
    /\ ~IsFullResults /\ ~IsPartialResults
    /\ ~IsRateLimitAdvisory /\ ~IsValidationRejection

\* the texts a second session may have left in the output files
OtherFileTexts == { <<u>> : u \in OtherTexts }

\* C16: with a second session's writer calls interleaved, a session whose own
\* translator wrote e and then h may return, for each field, its own text,
\* the other session's text, or the "not found" placeholder; in every such
\* case the response is an ordinary result with an empty error field, so
\* nothing in it tells that the files were overwritten or purged.
C16_InterleavingUndetected ==
    ( /\ entry = "WebA"
      /\ pc = "done"
      /\ LastTwoCalls("original_script", "write_hebrew_to_file")
      /\ ReadsWithoutIoError ) =>
        /\ outcome = "returned"
        /\ response.error = <<>>
        /\ response.original \in
             { <<toolLog[Len(toolLog) - 1].text>>,
               <<"Original script file not found.">> } \cup OtherFileTexts
        /\ response.hebrew \in
             { <<toolLog[Len(toolLog)].text>>,
               <<"Hebrew translation file not found.">> } \cup OtherFileTexts

\* the session wrote t1 and t2, and returns the other session's original
\* script and no translation: the other session's original_script purged it
C16_Witness ==
    /\ entry = "WebA"
    /\ pc = "done"
    /\ toolLog = << [name |-> "original_script", text |-> "t1", ok |-> TRUE],
                    [name |-> "write_hebrew_to_file", text |-> "t2", ok |-> TRUE] >>
    /\ otherCalls > 0
    /\ response.original = <<"u1">>
    /\ response.hebrew = <<"Hebrew translation file not found.">>
    /\ response.error = <<>>

\* create_comic_panel was called and the response held no image part
NoImagePart ==
    /\ comicCall.kind \in {"parts", "parts_none"}
    /\ ~FirstImage(comicCall.parts)

\* C17: when the response of the image endpoint holds zero image parts (text
\* parts only, or no parts), create_comic_panel writes no file, leaves an
\* existing generated_comic_panel.png as it was, returns None and raises no
\* error.
C17_NoImagePartIsNotAnError ==
    (pc = "done" /\ NoImagePart) =>
        /\ ~comicCall.raised
        /\ comicCall.image = "none"
        /\ comicFile = comicCall.before

\* an exception arose in the endpoint call or in the handling of its response
ComicFailure == comicCall.kind \in {"endpoint_error", "parts_none", "save_error"}

\* C18: an exception in create_comic_panel's endpoint call or response
\* handling results in no image, and the CLI session that called it still
\* returns "Final Script Output:" followed by the scripter's output.
C18_ComicFailureNeverFailsSession ==
    (entry = "CliA" /\ pc = "done" /\ ComicFailure) =>
        /\ ~comicCall.raised
        /\ comicCall.image = "none"
        /\ outcome = "returned"
        /\ response = [value |-> <<"Final Script Output:\n">> \o final_output]

\* C19 (as stated): every invocation of the scripter, from every entry point,
\* is made with max_turns = 30.
C19_EveryInvocationCappedAtThirty ==
    invocations > 0 => max_turns = <<30>>

\* C19 (amended): src/app/app.py and src/app/parliament_agent_open_ai_sdk.py
\* invoke the scripter with max_turns = 30; src/app.py and
\* src/parlament_agent.py invoke it without a max_turns argument, so the
\* program sets no ceiling there and the agent runtime's default applies.
C19_ThirtyTurnsInAppPackageOnly ==
    invocations > 0 =>
        /\ entry \in {"WebA", "CliA"} => max_turns = <<30>>
        /\ entry \in {"WebB", "CliB"} => max_turns = <<>>

C19_Witness ==
    /\ entry = "WebB"
    /\ invocations = 1
    /\ pc = "running"
    /\ max_turns = <<>>

\* a read of one of the two output files failed: the file is missing, or
\* open/read raised another exception
OriginalReadFailed == readLog.original \in {"missing", "ioerror"}
HebrewReadFailed == readLog.hebrew \in {"missing", "ioerror"}

\* C20: in the web handlers a failed read of one artifact never blocks the
\* other.  When reading original_script.txt fails in any way, the original
\* field is a placeholder string, the Hebrew file is still read and its
\* result returned; when reading hebrew_output.txt fails, the Hebrew field is
\* a placeholder and the original field is what was read; in neither case is
\* the response the generic error message.
C20_ReadFailuresAreIndependent ==
    (WebHandlerDone /\ (OriginalReadFailed \/ HebrewReadFailed)) =>
        /\ outcome = "returned"
        /\ ~IsGenericErrorMessage
        /\ OriginalReadFailed =>
              /\ response.original \in OriginalPlaceholders
              /\ readLog.hebrew # "none"
              /\ response.hebrew = hebrew_output
        /\ HebrewReadFailed =>
              /\ response.hebrew \in HebrewPlaceholders
              /\ response.original = original_output

\* C21: validate_user_input returns success = False for every input that is
\* empty or made of whitespace only, whatever the validation agent run
\* returns.
C21_BlankInputFailsValidation ==
    (guardrailsCall.made /\ IsBlank(guardrailsCall.user_input)) =>
        /\ ~guardrailsCall.raised
        /\ ~guardrailsCall.response.success

\* texts: finite sequences of fragments
IsText(x) == DOMAIN x = 1..Len(x) /\ \A i \in DOMAIN x : x[i] \in STRING

\* C22: validate_user_input never raises: for every input and every outcome
\* of the agent run (a result, a tripwire, any other exception) it returns a
\* GuardrailsResponse with a boolean success, a string sanitized_input and a
\* list of warnings: the run's output with no warning on success, and an empty
\* sanitized_input with one warning naming the guardrail or the exception
\* otherwise.
C22_ValidateUserInputNeverRaises ==
    guardrailsCall.made =>
        /\ ~guardrailsCall.raised
        /\ guardrailsCall.response.success \in BOOLEAN
        /\ IsText(guardrailsCall.response.sanitized_input)
        /\ \A i \in DOMAIN guardrailsCall.response.warnings :
              IsText(guardrailsCall.response.warnings[i])
        /\ guardrailsCall.run.kind = "ok" =>
              guardrailsCall.response =
                  [success |-> TRUE, sanitized_input |-> guardrailsCall.run.arg,
                   warnings |-> <<>>]
        /\ guardrailsCall.run.kind = "tripwire" =>
              guardrailsCall.response =
                  [success |-> FALSE, sanitized_input |-> <<>>,
                   warnings |-> << <<"Guardrail triggered: ">>
                                     \o guardrailsCall.run.arg >>]
        /\ guardrailsCall.run.kind = "error" =>
              guardrailsCall.response =
                  [success |-> FALSE, sanitized_input |-> <<>>,
                   warnings |-> << <<"Validation error: ">>
                                     \o guardrailsCall.run.arg >>]

C22_Witness ==
    /\ guardrailsCall.made
    /\ guardrailsCall.user_input = <<"a">>
    /\ guardrailsCall.run = [kind |-> "error", arg |-> <<"boom">>]
    /\ ~guardrailsCall.raised
    /\ guardrailsCall.response.warnings = << <<"Validation error: ", "boom">> >>

\* the value holds a listed term, in any letter case
HoldsTerm(value, terms) ==
    \E k \in DOMAIN terms : Contains(Lower(value), terms[k])

\* C23: both guards raise on every input that holds a term of the toxic list
\* in any letter case, and return unchanged every input that holds neither a
\* listed toxic term nor a listed profane word.
C23_GuardsRejectToxicPassClean ==
    guardCall.made =>
        /\ HoldsTerm(guardCall.value, toxic_terms) => guardCall.raised
        /\ ( /\ ~HoldsTerm(guardCall.value, toxic_terms)
             /\ ~HoldsTerm(guardCall.value, profane_words) ) =>
              /\ ~guardCall.raised
              /\ guardCall.validated_output = guardCall.value

C23_Witness ==
    /\ guardCall.made
    /\ guardCall.guard = "create_parliament_guard"
    /\ guardCall.value = <<"H", "a", "t", "e">>
    /\ guardCall.raised

\* the writer tools the translator called in this session
Called(name) == \E i \in DOMAIN toolLog : toolLog[i].name = name

\* C24: with one session at a time, when the translator called
\* original_script but never write_hebrew_to_file, hebrew_output.txt is
\* absent when the web handler reads it and the Hebrew field is the "not
\* found" placeholder, never a text left by an earlier session.
C24_NoStaleHebrew ==
    ( /\ entry \in WebEntries
      /\ Called("original_script")
      /\ ~Called("write_hebrew_to_file")
      /\ readLog.hebrew # "none" ) =>
        /\ readLog.hebrew = "missing"
        /\ hebrew_output = <<"Hebrew translation file not found.">>
        /\ pc = "done" =>
              /\ outcome = "returned"
              /\ response.hebrew = <<"Hebrew translation file not found.">>

\* the directory held an old hebrew_output.txt (keep.md came with it and is
\* never purged); this session wrote the original script only
C24_Witness ==
    /\ entry = "WebA"
    /\ pc = "done"
    /\ keep_md \in DOMAIN outputDir.files
    /\ toolLog = << [name |-> "original_script", text |-> "t1", ok |-> TRUE] >>
    /\ response.original = <<"t1">>
    /\ response.hebrew = <<"Hebrew translation file not found.">>

\* what a read of an output file gives when it raises no I/O error
FileOrPlaceholder(name, placeholder) ==
    IF FilePresent(name) THEN <<outputDir.files[name]>> ELSE placeholder

WebDelay(a, msg) ==
    IF RetrySearch(msg) # <<>>
    THEN AddSeconds(ParseFloat(RetrySearch(msg)), 5)
    ELSE Seconds(30 * (2 ^ a))

\* a CLI handler has just computed the delay it is about to sleep
CliDelayJustComputed == entry \in CliEntries /\ pc = "sleep" /\ RateLimitedNow

\* C26 (as stated): for the same attempt index and the same rate-limit
\* message the CLI retry loop computes the delay the web path computes:
\* suggested + 5 with a "retry in Ns" hint, 30 * 2^attempt otherwise.
C26_CliDelayEqualsWebDelay ==
    CliDelayJustComputed => SameSeconds(delay, WebDelay(attempt, lastExc.msg))

\* C26 (amended): the CLI of src/app/parliament_agent_open_ai_sdk.py computes
\* the web path's delay only when the message has a "retry in Ns" hint
\* (suggested + 5); without a hint it computes 35 * 2^attempt, which is never
\* the web path's 30 * 2^attempt.  The CLI of src/parlament_agent.py does not
\* read the message and always computes 2 * 2^attempt.
C26_CliDelayPerEntryPoint ==
    CliDelayJustComputed =>
        /\ (entry = "CliA" /\ RetrySearch(lastExc.msg) # <<>>) =>
              SameSeconds(delay, WebDelay(attempt, lastExc.msg))
        /\ (entry = "CliA" /\ RetrySearch(lastExc.msg) = <<>>) =>
              /\ SameSeconds(delay, Seconds(35 * (2 ^ attempt)))
              /\ ~SameSeconds(delay, WebDelay(attempt, lastExc.msg))
        /\ entry = "CliB" =>
              SameSeconds(delay, Seconds(2 * (2 ^ attempt)))

C26_Witness ==
    /\ CliDelayJustComputed
    /\ entry = "CliA"
    /\ attempt = 1
    /\ lastExc.msg = Msg_quota
    /\ delay = [num |-> 70, den |-> 1]

\* C27 (as stated): every session terminates when each external call
\* returns; a CLI session makes at most 3 scripter invocations and at most 2
\* sleeps, a web session at most one validation and one scripter invocation.
C27_TerminatesWithinThreeAttempts ==
    /\ (InFlight ~> pc = "done")
    /\ [](entry \in CliEntries => (invocations <= 3 /\ Len(slept) <= 2))
    /\ [](entry \in WebEntries => (invocations <= 1 /\ slept = <<>>))
    /\ [][pc' = "validate" => pc \in {"idle", "done"}]_vars

\* C27 (amended): every session terminates when each external call returns.
\* The CLI of src/app/parliament_agent_open_ai_sdk.py makes at most 3
\* scripter invocations and 2 sleeps, the CLI of src/parlament_agent.py at
\* most 5 invocations and 4 sleeps; a web session makes at most one
\* validation (entered only on submission) and one scripter invocation and
\* never sleeps.
C27_TerminatesWithinMaxRetries ==
    /\ (InFlight ~> pc = "done")
    /\ [](entry = "CliA" => (invocations <= 3 /\ Len(slept) <= 2))
    /\ [](entry = "CliB" => (invocations <= 5 /\ Len(slept) <= 4))
    /\ [](entry \in WebEntries => (invocations <= 1 /\ slept = <<>>))
    /\ [][pc' = "validate" => pc \in {"idle", "done"}]_vars

C27_Witness ==
    /\ entry = "CliB"
    /\ pc = "done"
    /\ invocations = 5
    /\ Len(slept) = 4

\* C28: a web handler invokes the scripter at most once in a session: the
\* loop over 3 attempts is always left in its first iteration (a result, the
\* advisory on a rate limit, or the generic error), so the messages "Rate
\* limit error after 3 attempts..." and "Unexpected error occurred" are never
\* returned.
C28_WebLoopRunsOnce ==
    entry \in WebEntries =>
        /\ invocations <= 1
        /\ attempt = 0
        /\ pc # "sleep"
        /\ pc = "done" =>
              /\ outcome = "returned"
              /\ response.original # <<"Unexpected error occurred">>
              /\ response.original # <<>> =>
                    response.original[1] # "Rate limit error after "
              /\ lastExc.kind = "RateLimitError" => IsRateLimitAdvisory
              /\ lastExc.kind \in {"Exception", "FormatError"} =>
                    IsGenericErrorMessage

C28_Witness ==
    /\ entry = "WebB"
    /\ pc = "done"
    /\ lastExc.kind = "RateLimitError"
    /\ invocations = 1
    /\ attempt = 0
    /\ IsRateLimitAdvisory

WebADone == entry = "WebA" /\ pc = "done" /\ outcome = "returned"

\* C30: in src/app/app.py the error field of the response is non-empty only
\* for a blank topic, a validation failure, or an exception escaping
\* run_parliament_session_ui; a rate-limit advisory and a generation error
\* that is not a rate limit come as text in the original-script field with
\* an empty error field, and handle_submit shows the error banner exactly
\* when the error field is non-empty, so not for these two.
C30_ErrorFieldAndBanner ==
    WebADone =>
        /\ response.error # <<>> =>
              \/ IsBlankTopicPrompt
              \/ IsValidationRejection
              \/ response.error[1] = "Error: "
        /\ IsBlank(topic) => response.error = <<"Please enter a topic">>
        /\ (validation.kind # "none" /\ invocations = 0
              /\ lastExc.kind = "none") =>
              (response.error # <<>> /\ handle_submit(response).error_visible)
        /\ lastExc.kind = "RateLimitError" =>
              /\ IsRateLimitAdvisory
              /\ response.error = <<>>
              /\ ~handle_submit(response).error_visible
        /\ lastExc.kind \in {"Exception", "FormatError"} =>
              /\ response.original[1] = "Error: "
              /\ response.error = <<>>
              /\ ~handle_submit(response).error_visible
        /\ handle_submit(response).error_visible <=> response.error # <<>>
        /\ handle_submit(response).error_visible =>
              handle_submit(response).error_html = response.error

C30_Witness ==
    /\ WebADone
    /\ lastExc.kind = "RateLimitError"
    /\ IsRateLimitAdvisory
    /\ response.error = <<>>
    /\ ~handle_submit(response).error_visible
====
